---- MODULE Spec2Model ----
(***************************************************************************)
(* Model of src/index.ts, the Inworld JWT token generator: the signed      *)
(* authorization header (getDateTime, getSignatureKey, getAuthorization,   *)
(* generateAuthHeader) and the token request (getJwtToken, main).          *)
(*                                                                         *)
(* A JavaScript string is a sequence of character codes, a WordArray a     *)
(* sequence of bytes (0..255).                                             *)
(***************************************************************************)
EXTENDS Integers, Sequences, FiniteSets, TLC

\* ------------------------------------------------------------------------
\* Strings
\* ------------------------------------------------------------------------

\* The printable ASCII characters, from code 32 (space) to code 126 (~);
\* the grave accent (code 96) is not used by the program and is spelled out.
Ascii ==
  << " ", "!", "\"", "#", "$", "%", "&", "'", "(", ")", "*", "+", ",", "-",
     ".", "/", "0", "1", "2", "3", "4", "5", "6", "7", "8", "9", ":", ";",
     "<", "=", ">", "?", "@", "A", "B", "C", "D", "E", "F", "G", "H", "I",
     "J", "K", "L", "M", "N", "O", "P", "Q", "R", "S", "T", "U", "V", "W",
     "X", "Y", "Z", "[", "\\", "]", "^", "_", "(grave)", "a", "b", "c", "d", "e",
     "f", "g", "h", "i", "j", "k", "l", "m", "n", "o", "p", "q", "r", "s",
     "t", "u", "v", "w", "x", "y", "z", "{", "|", "}", "~" >>

CodeOf(c) == 31 + (CHOOSE i \in 1..Len(Ascii) : Ascii[i] = c)

\* A string literal, written as its characters.
Str(chars) == [i \in 1..Len(chars) |-> CodeOf(chars[i])]

Min(a, b) == IF a < b THEN a ELSE b

\* String.prototype.substring(start, end) and slice(start, end) for
\* 0 <= start <= end: the characters at the 0-based positions start..end-1.
Substring(s, start, end) ==
  SubSeq(s, Min(start, Len(s)) + 1, Min(end, Len(s)))

\* String.prototype.replace(pattern, replacement) with a string pattern:
\* only the first occurrence of the pattern is replaced.
ReplaceFirst(s, pat, rep) ==
  LET hits == { i \in 1..(Len(s) - Len(pat) + 1) :
                  SubSeq(s, i, i + Len(pat) - 1) = pat }
  IN  IF hits = {} THEN s
      ELSE LET i == CHOOSE j \in hits : \A k \in hits : j <= k
           IN  SubSeq(s, 1, i - 1) \o rep \o SubSeq(s, i + Len(pat), Len(s))

\* String.prototype.replace(/c/g, ''): every occurrence of the character c
\* is removed.
RECURSIVE RemoveAll(_, _)
RemoveAll(s, c) ==
  IF s = << >> THEN << >>
  ELSE IF Head(s) = c THEN RemoveAll(Tail(s), c)
       ELSE << Head(s) >> \o RemoveAll(Tail(s), c)

\* String.prototype.split(c): the parts of s between the occurrences of c.
RECURSIVE Split(_, _)
Split(s, c) ==
  LET cuts == { i \in 1..Len(s) : s[i] = c }
  IN  IF cuts = {} THEN << s >>
      ELSE LET i == CHOOSE j \in cuts : \A k \in cuts : j <= k
           IN  << SubSeq(s, 1, i - 1) >> \o Split(SubSeq(s, i + 1, Len(s)), c)

\* Number to decimal string, padded with zeros to the given width.
RECURSIVE Pad(_, _)
Pad(n, width) ==
  IF width = 0 THEN << >>
  ELSE Pad(n \div 10, width - 1) \o << 48 + (n % 10) >>

\* ------------------------------------------------------------------------
\* Encodings
\* ------------------------------------------------------------------------

HexDigit(d) == IF d < 10 THEN 48 + d ELSE 87 + d

\* Hex encoding of a byte sequence (Buffer.toString('hex') and
\* WordArray.toString()): two lowercase hexadecimal digits per byte.
Hex(bytes) ==
  [i \in 1..(2 * Len(bytes)) |->
     IF i % 2 = 1 THEN HexDigit(bytes[(i + 1) \div 2] \div 16)
     ELSE HexDigit(bytes[i \div 2] % 16)]

\* The UTF-8 bytes of one character of the Basic Multilingual Plane.
Utf8Char(c) ==
  IF c < 128 THEN << c >>
  ELSE IF c < 2048 THEN << 192 + (c \div 64), 128 + (c % 64) >>
  ELSE << 224 + (c \div 4096), 128 + ((c \div 64) % 64), 128 + (c % 64) >>

\* Utf8.parse: the UTF-8 bytes of the characters lo..hi of a string.
RECURSIVE Utf8Range(_, _, _)
Utf8Range(s, lo, hi) ==
  IF lo > hi THEN << >>
  ELSE IF lo = hi THEN Utf8Char(s[lo])
  ELSE LET mid == (lo + hi) \div 2
       IN  Utf8Range(s, lo, mid) \o Utf8Range(s, mid + 1, hi)

Utf8(s) == Utf8Range(s, 1, Len(s))

\* ------------------------------------------------------------------------
\* HmacSHA256 (crypto-js)
\* ------------------------------------------------------------------------
\* The primitive is a library function.  The model keeps its interface and
\* its shape, hash(opad, key, hash(ipad, key, message)) over bytes with a
\* digest of DigestBytes bytes, and replaces SHA-256's compression by a
\* position-weighted checksum, so that every value is computed and two
\* different computations can be compared.

DigestBytes == 32

RECURSIVE WeightedSum(_, _, _)
WeightedSum(bytes, lo, hi) ==
  IF lo > hi THEN 0
  ELSE IF lo = hi THEN (bytes[lo] + 1) * (lo * lo + 7 * lo + 13)
  ELSE LET mid == (lo + hi) \div 2
       IN  WeightedSum(bytes, lo, mid) + WeightedSum(bytes, mid + 1, hi)

Digest(bytes) ==
  LET sum == WeightedSum(bytes, 1, Len(bytes))
      a == sum % 65521
      b == sum \div 65521
  IN  [j \in 1..DigestBytes |-> (a * (2 * j + 1) + b * j + j * j) % 256]

\* A key is a string or a WordArray; a string key is Utf8-parsed, a
\* WordArray key is used as the bytes it holds.
StringValue(s) == [type |-> "string", v |-> s]
WordArray(bytes) == [type |-> "WordArray", v |-> bytes]
KeyBytes(key) == IF key.type = "string" THEN Utf8(key.v) ELSE key.v

HmacSHA256(message, key) ==
  LET k == KeyBytes(key)
      inner == Digest(<< 54, Len(k) >> \o k \o Utf8(message))
  IN  WordArray(Digest(<< 92, Len(k) >> \o k \o inner))

\* ------------------------------------------------------------------------
\* Date
\* ------------------------------------------------------------------------
\* A Date is an instant, held as its UTC calendar fields; tz is the offset
\* in hours of the process's local time zone, which toISOString never reads.

IsLeap(y) == (y % 4 = 0 /\ y % 100 # 0) \/ y % 400 = 0

DaysInMonth(y, m) ==
  IF m = 2 THEN (IF IsLeap(y) THEN 29 ELSE 28)
  ELSE IF m \in {4, 6, 9, 11} THEN 30 ELSE 31

\* The instant one second later.
NextSecond(d) ==
  IF d.seconds < 59 THEN [d EXCEPT !.seconds = @ + 1]
  ELSE IF d.minutes < 59 THEN [d EXCEPT !.seconds = 0, !.minutes = @ + 1]
  ELSE IF d.hours < 23
    THEN [d EXCEPT !.seconds = 0, !.minutes = 0, !.hours = @ + 1]
  ELSE IF d.day < DaysInMonth(d.year, d.month)
    THEN [d EXCEPT !.seconds = 0, !.minutes = 0, !.hours = 0, !.day = @ + 1]
  ELSE IF d.month < 12
    THEN [d EXCEPT !.seconds = 0, !.minutes = 0, !.hours = 0, !.day = 1,
                   !.month = @ + 1]
  ELSE [d EXCEPT !.seconds = 0, !.minutes = 0, !.hours = 0, !.day = 1,
                 !.month = 1, !.year = @ + 1]

\* Date.prototype.toISOString for the years 0000 to 9999:
\* YYYY-MM-DDTHH:mm:ss.sssZ, always in UTC.
toISOString(d) ==
  Pad(d.year, 4) \o Str(<< "-" >>) \o Pad(d.month, 2) \o Str(<< "-" >>)
    \o Pad(d.day, 2) \o Str(<< "T" >>) \o Pad(d.hours, 2) \o Str(<< ":" >>)
    \o Pad(d.minutes, 2) \o Str(<< ":" >>) \o Pad(d.seconds, 2)
    \o Str(<< "." >>) \o Pad(d.ms, 3) \o Str(<< "Z" >>)

\* ------------------------------------------------------------------------
\* Helper functions of index.ts
\* ------------------------------------------------------------------------

\* A variant that formats the local time of the process instead of UTC.
getDateTimeLocal(now) ==
  LET local == [now EXCEPT !.hours = (now.hours + now.tz + 24) % 24]
      parts == Split(toISOString(local), CodeOf("T"))
  IN  RemoveAll(parts[1], CodeOf("-"))
        \o Substring(RemoveAll(parts[2], CodeOf(":")), 0, 6)

\* getDateTime, applied to the Date that `new Date()` returns.
getDateTime(now) ==
  LET parts == Split(toISOString(now), CodeOf("T"))
      date == RemoveAll(parts[1], CodeOf("-"))
      time == Substring(RemoveAll(parts[2], CodeOf(":")), 0, 6)
  IN  date \o time

Iw1 == Str(<< "I", "W", "1" >>)

\* The initial value of `signature` in getSignatureKey.
SignatureSeed(key) == StringValue(Iw1 \o key)

\* A variant that turns every intermediate result into its hex string.
ForEachBodyHexKey(signature, p) ==
  StringValue(Hex(HmacSHA256(p, signature).v))

\* The body of the forEach callback of getSignatureKey.
ForEachBody(signature, p) == HmacSHA256(p, signature)

Iw1Request ==
  Str(<< "i", "w", "1", "_", "r", "e", "q", "u", "e", "s", "t" >>)

\* The return expression of getSignatureKey.
FinalSignature(signature) == Hex(HmacSHA256(Iw1Request, signature).v)

\* crypto.randomBytes(RandomBytesLen), as the buffers the model draws: byte i
\* of the buffer of seed <<a, b>> is (a + b * i) mod 256.
RandomBytesLen == 16
RandomSeeds == { << 0, 0 >>, << 255, 0 >>, << 171, 37 >> }
RandomBuffer(seed) ==
  [i \in 1..RandomBytesLen |-> (seed[1] + seed[2] * i) % 256]

\* A variant that formats the random bytes as one number, without its
\* leading zeros.
RECURSIVE TrimLeadingZeros(_)
TrimLeadingZeros(s) ==
  IF s # << >> /\ Head(s) = 48 THEN TrimLeadingZeros(Tail(s)) ELSE s

NonceTrimmed(bytes) == Substring(TrimLeadingZeros(Hex(bytes)), 1, 12)

\* The nonce of getAuthorization from the random bytes drawn.
Nonce(bytes) == Substring(Hex(bytes), 1, 12)

Path ==
  Str(<< "/", "a", "i", ".", "i", "n", "w", "o", "r", "l", "d", ".",
         "e", "n", "g", "i", "n", "e", ".", "W", "o", "r", "l", "d",
         "E", "n", "g", "i", "n", "e", "/", "G", "e", "n", "e", "r", "a", "t",
         "e", "T", "o", "k", "e", "n" >>)

Port443 == Str(<< ":", "4", "4", "3" >>)

\* A variant that signs the host the request is sent to.
SignatureParamsOfHost(host, engineHost, datetime, nonce) ==
  << datetime,
     ReplaceFirst(host, Port443, << >>),
     Substring(Path, 1, Len(Path)),
     nonce >>

\* The parameter list getAuthorization passes to getSignatureKey.
SignatureParams(host, engineHost, datetime, nonce) ==
  << datetime,
     ReplaceFirst(engineHost, Port443, << >>),
     Substring(Path, 1, Len(Path)),
     nonce >>

\* The template string getAuthorization returns.
AuthorizationValue(key, datetime, nonce, signature) ==
  Str(<< "I", "W", "1", "-", "H", "M", "A", "C", "-", "S", "H", "A", "2",
         "5", "6", " ", "A", "p", "i", "K", "e", "y", "=" >>) \o key
    \o Str(<< ",", "D", "a", "t", "e", "T", "i", "m", "e", "=" >>) \o datetime
    \o Str(<< ",", "N", "o", "n", "c", "e", "=" >>) \o nonce
    \o Str(<< ",", "S", "i", "g", "n", "a", "t", "u", "r", "e", "=" >>)
    \o signature

\* process.env.NAME || fallback: an unset or empty variable gives the fallback.
EnvOr(value, fallback) ==
  IF value.set /\ value.v # << >> THEN value.v ELSE fallback

DefaultHost ==
  Str(<< "a", "p", "i", ".", "i", "n", "w", "o", "r", "l", "d", ".", "a", "i" >>)

DefaultEngineHost ==
  Str(<< "a", "p", "i", "-", "e", "n", "g", "i", "n", "e", ".", "i", "n", "w",
         "o", "r", "l", "d", ".", "a", "i" >>)

DefaultWorkspace ==
  Str(<< "w", "o", "r", "k", "s", "p", "a", "c", "e", "s", "/", "d", "e", "f",
         "a", "u", "l", "t", "-", "w", "o", "r", "k", "s", "p", "a", "c", "e" >>)

\* generateAuthHeader: the argument it passes to getAuthorization.
AuthorizationArgs(e) ==
  [ host |-> EnvOr(e.INWORLD_HOST, DefaultHost),
    apiKey |-> [ key |-> EnvOr(e.INWORLD_KEY, << >>),
                 secret |-> EnvOr(e.INWORLD_SECRET, << >>) ],
    engineHost |-> EnvOr(e.INWORLD_ENGINE_HOST, DefaultEngineHost) ]

\* The URL of the token request.
TokenUrl(host) ==
  Str(<< "h", "t", "t", "p", "s", ":", "/", "/" >>) \o host
    \o Str(<< "/", "a", "u", "t", "h", "/", "v", "1", "/", "t", "o", "k", "e",
              "n", "s", "/", "t", "o", "k", "e", "n", ":", "g", "e", "n", "e",
              "r", "a", "t", "e" >>)

\* The request axios.post issues.
PostRequest(host, apiKey, workspaceName, authHeader) ==
  [ method |-> "POST",
    url |-> TokenUrl(host),
    body |-> [key |-> apiKey, resources |-> << workspaceName >>],
    headers |-> [Authorization |-> authHeader,
                 ContentType |-> Str(<< "a", "p", "p", "l", "i", "c", "a", "t",
                                        "i", "o", "n", "/", "j", "s", "o",
                                        "n" >>)] ]

\* ------------------------------------------------------------------------
\* The algorithm the README documents
\* ------------------------------------------------------------------------

\* README, "Signature Generation Algorithm": every intermediate result is
\* turned into its hex string, and that string is the key of the next step.
RECURSIVE ReadmeLoop(_, _, _)
ReadmeLoop(signature, ps, i) ==
  IF i > Len(ps) THEN signature
  ELSE ReadmeLoop(StringValue(Hex(HmacSHA256(ps[i], signature).v)), ps, i + 1)

ReadmeSignatureKey(key, ps) ==
  Hex(HmacSHA256(Iw1Request,
                 ReadmeLoop(StringValue(Iw1 \o key), ps, 1)).v)

\* ------------------------------------------------------------------------
\* The environment: process.env, the system clock, the random source and the
\* HTTP layer
\* ------------------------------------------------------------------------

Unset == [set |-> FALSE, v |-> << >>]
SetTo(s) == [set |-> TRUE, v |-> s]

KeyValues == { Unset, SetTo(Str(<< "k", "1" >>)) }
SecretValues == { Unset, SetTo(Str(<< "s", "3", "c" >>)) }
HostValues == { Unset, SetTo(Str(<< "h", ".", "i", "o", ":", "4", "4", "3" >>)) }
EngineHostValues ==
  { Unset,
    SetTo(Str(<< "e", ".", "i", "o", ":", "4", "4", "3" >>)),
    SetTo(Str(<< "e", ".", "i", "o", ":", "8", "4", "4", "3" >>)),
    SetTo(Str(<< "e", ".", "i", "o", ":", "4", "4", "3", "0" >>)) }
WorkspaceValues == { Unset, SetTo(Str(<< "w", "/", "x" >>)) }

Environments ==
  [ INWORLD_KEY : KeyValues, INWORLD_SECRET : SecretValues,
    INWORLD_HOST : HostValues, INWORLD_ENGINE_HOST : EngineHostValues,
    INWORLD_WORKSPACE : WorkspaceValues ]

Instant(y, mo, d, h, mi, s, ms, tz) ==
  [ year |-> y, month |-> mo, day |-> d, hours |-> h, minutes |-> mi,
    seconds |-> s, ms |-> ms, tz |-> tz ]

StartInstants ==
  { Instant(2025, 1, 1, 0, 0, 0, 0, 0),
    Instant(2024, 2, 28, 23, 59, 59, 999, 9),
    Instant(2025, 12, 31, 23, 59, 58, 42, -5),
    Instant(2031, 10, 15, 13, 45, 30, 500, 1),
    Instant(9999, 6, 9, 7, 8, 9, 7, 0) }

\* How many seconds the clock advances while one header is built.
MaxTicks == 2

NoData ==
  [ present |-> FALSE, hasToken |-> FALSE, token |-> << >>, type |-> << >>,
    expirationTime |-> << >>, hasSessionId |-> FALSE, sessionId |-> << >> ]

TokenData(hasToken, hasSessionId) ==
  [ present |-> TRUE,
    hasToken |-> hasToken,
    token |-> IF hasToken THEN Str(<< "e", "y", "J", "h", "b", "G", "c", "i",
                                     "O", "i", "J", "I", "U", "z", "I", "1",
                                     "N", "i", "J", "9" >>)
              ELSE << >>,
    type |-> Str(<< "B", "e", "a", "r", "e", "r" >>),
    expirationTime |-> Str(<< "2", "0", "2", "5", "-", "0", "5", "-", "1", "6",
                              "T", "0", "2", ":", "5", "0", ":", "2", "6",
                              "Z" >>),
    hasSessionId |-> hasSessionId,
    sessionId |-> IF hasSessionId THEN Str(<< "d", "e", "f", "a", "u", "l",
                                             "t", ":", "f", "b" >>)
                  ELSE << >> ]

\* The bodies a 2xx response can carry.
ResponseBodies ==
  { TokenData(TRUE, TRUE), TokenData(TRUE, FALSE), TokenData(FALSE, FALSE) }

NoError == [thrown |-> FALSE, isAxios |-> FALSE, kind |-> "none", status |-> 0]
Failure(isAxios, kind, status) ==
  [thrown |-> TRUE, isAxios |-> isAxios, kind |-> kind, status |-> status]

\* What axios.post can reject with: no response (network, timeout), a
\* non-2xx response, or an error that is not an AxiosError.
PostErrors ==
  { Failure(TRUE, "network", 0), Failure(TRUE, "timeout", 0),
    Failure(TRUE, "status", 403), Failure(TRUE, "status", 500),
    Failure(FALSE, "other", 0) }

TypeError == Failure(FALSE, "TypeError", 0)

Pending == [state |-> "pending", data |-> NoData, error |-> NoError]
Fulfilled(data) == [state |-> "fulfilled", data |-> data, error |-> NoError]
Rejected(error) == [state |-> "rejected", data |-> NoData, error |-> error]

ConsoleLine(stream, label, data, error) ==
  [stream |-> stream, label |-> label, data |-> data, error |-> error]

NoArgs ==
  [ host |-> << >>, apiKey |-> [key |-> << >>, secret |-> << >>],
    engineHost |-> << >> ]

\* ------------------------------------------------------------------------
\* State
\* ------------------------------------------------------------------------

VARIABLES
  pc,          \* where the run of main() stands
  env,         \* process.env
  clock,       \* the system clock
  ticks,       \* seconds elapsed since the start
  host,        \* getJwtToken: host
  args,        \* getAuthorization: {host, apiKey, engineHost}
  now,         \* getDateTime: the Date that new Date() returned
  datetime,    \* getAuthorization: datetime
  nonce,       \* getAuthorization: nonce
  params,      \* getSignatureKey: params
  signature,   \* getSignatureKey: signature
  idx,         \* getSignatureKey: the next element forEach visits
  hmacs,       \* number of HmacSHA256 applications so far
  sigHex,      \* getAuthorization: signature
  authHeader,  \* getJwtToken: authHeader
  posts,       \* the requests handed to axios.post, in order
  transport,   \* how the HTTP layer settled the request
  result,      \* the promise getJwtToken() returns
  console      \* the lines written to the console, in order

vars ==
  << pc, env, clock, ticks, host, args, now, datetime, nonce, params,
     signature, idx, hmacs, sigHex, authHeader, posts, transport, result, console >>

Init ==
  /\ pc = "main"
  /\ env \in Environments
  /\ clock \in StartInstants
  /\ ticks = 0
  /\ host = << >>
  /\ args = NoArgs
  /\ now = clock
  /\ datetime = << >>
  /\ nonce = << >>
  /\ params = << >>
  /\ signature = StringValue(<< >>)
  /\ idx = 0
  /\ hmacs = 0
  /\ sigHex = << >>
  /\ authHeader = << >>
  /\ posts = << >>
  /\ transport = Pending
  /\ result = Pending
  /\ console = << >>

\* ------------------------------------------------------------------------
\* Actions
\* ------------------------------------------------------------------------

\* The system clock advances by one second.  The clock is read by
\* getDateTime only, so time that passes after the header is built is not
\* modelled.
Tick ==
  /\ pc \in {"getDateTime", "randomBytes", "getSignatureKey", "forEach",
             "template"}
  /\ ticks < MaxTicks
  /\ clock' = NextSecond(clock)
  /\ ticks' = ticks + 1
  /\ UNCHANGED << pc, env, host, args, now, datetime, nonce, params, signature,
                  idx, hmacs, sigHex, authHeader, posts, transport, result,
                  console >>

\* main calls getJwtToken, which reads host and calls generateAuthHeader,
\* which reads the credentials and both hosts and calls getAuthorization.
GenerateAuthHeader ==
  /\ pc = "main"
  /\ host' = EnvOr(env.INWORLD_HOST, DefaultHost)
  /\ args' = AuthorizationArgs(env)
  /\ pc' = "getDateTime"
  /\ UNCHANGED << env, clock, ticks, now, datetime, nonce, params, signature, idx,
                  hmacs, sigHex, authHeader, posts, transport, result,
                  console >>

\* getAuthorization: const datetime = getDateTime()
CallGetDateTime ==
  /\ pc = "getDateTime"
  /\ now' = clock
  /\ datetime' = getDateTime(clock)
  /\ pc' = "randomBytes"
  /\ UNCHANGED << env, clock, ticks, host, args, nonce, params, signature,
                  idx, hmacs, sigHex, authHeader, posts, transport, result,
                  console >>

\* getAuthorization: const nonce = crypto.randomBytes(16)...
DrawNonce(seed) ==
  /\ pc = "randomBytes"
  /\ nonce' = Nonce(RandomBuffer(seed))
  /\ pc' = "getSignatureKey"
  /\ UNCHANGED << env, clock, ticks, host, args, now, datetime, params, signature,
                  idx, hmacs, sigHex, authHeader, posts, transport, result,
                  console >>

\* getAuthorization calls getSignatureKey(secret, [...]), which sets
\* signature to `IW1${key}`.
CallGetSignatureKey ==
  /\ pc = "getSignatureKey"
  /\ params' = SignatureParams(args.host, args.engineHost, datetime, nonce)
  /\ signature' = SignatureSeed(args.apiKey.secret)
  /\ idx' = 1
  /\ hmacs' = 0
  /\ pc' = "forEach"
  /\ UNCHANGED << env, clock, ticks, host, args, now, datetime, nonce, sigHex,
                  authHeader, posts, transport, result, console >>

\* getSignatureKey: one call of the forEach callback.
ForEachParam ==
  /\ pc = "forEach"
  /\ idx <= Len(params)
  /\ signature' = ForEachBody(signature, params[idx])
  /\ idx' = idx + 1
  /\ hmacs' = hmacs + 1
  /\ UNCHANGED << pc, env, clock, ticks, host, args, now, datetime, nonce, params,
                  sigHex, authHeader, posts, transport, result, console >>

\* getSignatureKey: return HmacSHA256('iw1_request', signature).toString()
ReturnSignatureKey ==
  /\ pc = "forEach"
  /\ idx > Len(params)
  /\ sigHex' = FinalSignature(signature)
  /\ hmacs' = hmacs + 1
  /\ pc' = "template"
  /\ UNCHANGED << env, clock, ticks, host, args, now, datetime, nonce, params,
                  signature, idx, authHeader, posts, transport, result,
                  console >>

\* A variant that calls getDateTime again for the DateTime field.
ReturnAuthorizationFreshTime ==
  /\ pc = "template"
  /\ authHeader' = AuthorizationValue(args.apiKey.key, getDateTime(clock),
                                      nonce, sigHex)
  /\ pc' = "post"
  /\ UNCHANGED << env, clock, ticks, host, args, now, datetime, nonce, params,
                  signature, idx, hmacs, sigHex, posts, transport, result,
                  console >>

\* getAuthorization returns the header; generateAuthHeader returns it to
\* getJwtToken, which keeps it in authHeader.
ReturnAuthorization ==
  /\ pc = "template"
  /\ authHeader' = AuthorizationValue(args.apiKey.key, datetime, nonce, sigHex)
  /\ pc' = "post"
  /\ UNCHANGED << env, clock, ticks, host, args, now, datetime, nonce, params,
                  signature, idx, hmacs, sigHex, posts, transport, result,
                  console >>

\* getJwtToken reads apiKey and workspaceName and awaits axios.post(...).
AxiosPost ==
  /\ pc = "post"
  /\ posts' = Append(posts,
                     PostRequest(host, EnvOr(env.INWORLD_KEY, << >>),
                                 EnvOr(env.INWORLD_WORKSPACE, DefaultWorkspace),
                                 authHeader))
  /\ pc' = "await"
  /\ UNCHANGED << env, clock, ticks, host, args, now, datetime, nonce, params,
                  signature, idx, hmacs, sigHex, authHeader, transport,
                  result, console >>

\* A variant that returns the documented fields without the optional one.
PostResolvesDropsSession(data) ==
  /\ pc = "await"
  /\ transport' = Fulfilled(data)
  /\ result' = Fulfilled([data EXCEPT !.hasSessionId = FALSE,
                                      !.sessionId = << >>])
  /\ pc' = "resolved"
  /\ UNCHANGED << env, clock, ticks, host, args, now, datetime, nonce, params,
                  signature, idx, hmacs, sigHex, authHeader, posts, console >>

\* The request succeeds: getJwtToken returns response.data.
PostResolves(data) ==
  /\ pc = "await"
  /\ transport' = Fulfilled(data)
  /\ result' = Fulfilled(data)
  /\ pc' = "resolved"
  /\ UNCHANGED << env, clock, ticks, host, args, now, datetime, nonce, params,
                  signature, idx, hmacs, sigHex, authHeader, posts, console >>

\* A variant that reports the error and sends the request again.
CatchAndRetry(error) ==
  /\ console' = Append(console,
                       ConsoleLine("error", "API Error:", NoData, error))
  /\ result' = result
  /\ pc' = "post"
  /\ UNCHANGED posts

\* The catch block of getJwtToken: it reports the error and throws it again.
CatchInGetJwtToken(error) ==
  /\ \/ /\ error.isAxios
        /\ console' = Append(console,
                             ConsoleLine("error", "API Error:", NoData, error))
     \/ /\ ~error.isAxios
        /\ console' = Append(console,
                             ConsoleLine("error", "Error:", NoData, error))
  /\ result' = Rejected(error)
  /\ pc' = "rejected"
  /\ UNCHANGED posts

\* The request fails: axios.post rejects and the catch block runs.
PostRejects(error) ==
  /\ pc = "await"
  /\ transport' = Rejected(error)
  /\ CatchInGetJwtToken(error)
  /\ UNCHANGED << env, clock, ticks, host, args, now, datetime, nonce, params,
                  signature, idx, hmacs, sigHex, authHeader >>

\* main prints the token.  jwtToken.token.substring throws a TypeError when
\* the body has no token; the catch block of main reports it.
MainPrint ==
  /\ pc = "resolved"
  /\ \/ /\ result.data.hasToken
        /\ console' =
             console \o
               << ConsoleLine("log", "jwtToken", result.data, NoError),
                  ConsoleLine("log", "This JWT token can be used", NoData,
                              NoError),
                  ConsoleLine("log", "Include it in your API requests as:",
                              NoData, NoError),
                  ConsoleLine("log", "Authorization:", result.data, NoError),
                  ConsoleLine("log", "The token expires at:", result.data,
                              NoError) >>
     \/ /\ ~result.data.hasToken
        /\ console' =
             console \o
               << ConsoleLine("log", "jwtToken", result.data, NoError),
                  ConsoleLine("log", "This JWT token can be used", NoData,
                              NoError),
                  ConsoleLine("log", "Include it in your API requests as:",
                              NoData, NoError),
                  ConsoleLine("error", "Error in main:", NoData, TypeError) >>
  /\ pc' = "done"
  /\ UNCHANGED << env, clock, ticks, host, args, now, datetime, nonce, params,
                  signature, idx, hmacs, sigHex, authHeader, posts, transport,
                  result >>

\* The catch block of main: the error getJwtToken threw is reported.
MainCatch ==
  /\ pc = "rejected"
  /\ console' = Append(console,
                       ConsoleLine("error", "Error in main:", NoData,
                                   result.error))
  /\ pc' = "done"
  /\ UNCHANGED << env, clock, ticks, host, args, now, datetime, nonce, params,
                  signature, idx, hmacs, sigHex, authHeader, posts, transport,
                  result >>

Next ==
  \/ Tick
  \/ GenerateAuthHeader
  \/ CallGetDateTime
  \/ \E seed \in RandomSeeds : DrawNonce(seed)
  \/ CallGetSignatureKey
  \/ ForEachParam
  \/ ReturnSignatureKey
  \/ ReturnAuthorization
  \/ AxiosPost
  \/ \E data \in ResponseBodies : PostResolves(data)
  \/ \E error \in PostErrors : PostRejects(error)
  \/ MainPrint
  \/ MainCatch

Spec == Init /\ [][Next]_vars

\* ------------------------------------------------------------------------
\* Properties
\* ------------------------------------------------------------------------

\* Positions of the run at which getAuthorization has called getSignatureKey.
Signing == {"forEach", "template", "post", "await", "resolved", "rejected",
            "done"}
\* Positions at which getSignatureKey has returned.
Signed == Signing \ {"forEach"}

\* v_n of the documented chain: v_0 = "IW1" + secret as a string key, and
\* v_i = HMAC-SHA256(key = v_(i-1), message = p_i) as raw bytes.
RECURSIVE ChainValue(_, _, _)
ChainValue(secret, ps, n) ==
  IF n = 0 THEN StringValue(Iw1 \o secret)
  ELSE HmacSHA256(ps[n], ChainValue(secret, ps, n - 1))

ChainedSignature(secret, ps) ==
  Hex(HmacSHA256(Iw1Request, ChainValue(secret, ps, Len(ps))).v)

Digits == 48..57
LowerHex == (48..57) \cup (97..102)

RECURSIVE DecimalValue(_)
DecimalValue(s) ==
  IF s = << >> THEN 0
  ELSE 10 * DecimalValue(SubSeq(s, 1, Len(s) - 1)) + (s[Len(s)] - 48)

\* s without the suffix ":443", when it ends in it; s otherwise.
WithoutSuffix443(s) ==
  IF Len(s) >= 4 /\ SubSeq(s, Len(s) - 3, Len(s)) = Port443
  THEN SubSeq(s, 1, Len(s) - 4)
  ELSE s

\* The literal text of the wire contract.
WireScheme ==
  Str(<< "I", "W", "1", "-", "H", "M", "A", "C", "-", "S", "H", "A", "2", "5",
         "6", " ", "A", "p", "i", "K", "e", "y", "=" >>)
WireDateTime == Str(<< ",", "D", "a", "t", "e", "T", "i", "m", "e", "=" >>)
WireNonce == Str(<< ",", "N", "o", "n", "c", "e", "=" >>)
WireSignature ==
  Str(<< ",", "S", "i", "g", "n", "a", "t", "u", "r", "e", "=" >>)
WireMethod ==
  Str(<< "a", "i", ".", "i", "n", "w", "o", "r", "l", "d", ".", "e", "n", "g",
         "i", "n", "e", ".", "W", "o", "r", "l", "d", "E", "n", "g", "i", "n",
         "e", "/", "G", "e", "n", "e", "r", "a", "t", "e", "T", "o", "k", "e",
         "n" >>)

WireUrlScheme == Str(<< "h", "t", "t", "p", "s", ":", "/", "/" >>)
WireUrlPath ==
  Str(<< "/", "a", "u", "t", "h", "/", "v", "1", "/", "t", "o", "k", "e", "n",
         "s", "/", "t", "o", "k", "e", "n", ":", "g", "e", "n", "e", "r", "a",
         "t", "e" >>)

\* C1: with an empty secret or an empty key the signing path fails at once:
\* no HMAC is computed, no header is produced and no request is issued.
C1_EmptyCredentialFailsFast ==
  (pc # "main" /\ (args.apiKey.secret = << >> \/ args.apiKey.key = << >>))
    => /\ hmacs = 0
       /\ sigHex = << >>
       /\ authHeader = << >>
       /\ posts = << >>

\* C2: the host that is signed is the engine host without a trailing ":443"
\* and otherwise unchanged.
C2_OnlyTrailing443Stripped ==
  pc \in Signing => params[2] = WithoutSuffix443(args.engineHost)

C4_HeaderFormat ==
  pc \in {"post", "await"} =>
    /\ authHeader =
         WireScheme \o args.apiKey.key \o WireDateTime \o params[1]
           \o WireNonce \o params[4] \o WireSignature
           \o ChainedSignature(args.apiKey.secret,
                               << params[1], params[2], WireMethod,
                                  params[4] >>)
    /\ params[1] = getDateTime(now)
    /\ params[3] = WireMethod
    /\ pc = "await" => posts[1].headers.Authorization = authHeader
    /\ params[4] = nonce
    /\ Cardinality({ i \in 1..Len(authHeader) : authHeader[i] = 32 }) = 1

C4_Witness ==
  /\ pc = "post"
  /\ ticks > 0
  /\ clock # now
  /\ args.apiKey.key # << >>
  /\ Len(authHeader) > 0

\* C5: a failed POST is not retried, at most one POST is issued, and the
\* failure reaches main as the error the HTTP layer raised, never as a token.
C5_NoRetryAndPropagation ==
  /\ Len(posts) <= 1
  /\ transport.state = "rejected" =>
       /\ Len(posts) = 1
       /\ result = Rejected(transport.error)
       /\ pc \in {"rejected", "done"}
       /\ pc = "done" =>
            /\ console[Len(console)] =
                 ConsoleLine("error", "Error in main:", NoData,
                             transport.error)
            /\ \A i \in 1..Len(console) : console[i].stream = "error"

C5_Witness ==
  /\ pc = "done"
  /\ transport.state = "rejected"
  /\ transport.error.kind = "status"
  /\ Len(posts) = 1

\* C6: getDateTime returns exactly 14 decimal digits, YYYYMMDDHHMMSS, of the
\* UTC fields of the current instant.
C6_DateTimeFormat ==
  pc \notin {"main", "getDateTime"} =>
    /\ Len(datetime) = 14
    /\ \A i \in 1..Len(datetime) : datetime[i] \in Digits
    /\ DecimalValue(SubSeq(datetime, 1, 4)) = now.year
    /\ DecimalValue(SubSeq(datetime, 5, 6)) = now.month
    /\ DecimalValue(SubSeq(datetime, 7, 8)) = now.day
    /\ DecimalValue(SubSeq(datetime, 9, 10)) = now.hours
    /\ DecimalValue(SubSeq(datetime, 11, 12)) = now.minutes
    /\ DecimalValue(SubSeq(datetime, 13, 14)) = now.seconds

C6_Witness ==
  /\ pc = "randomBytes"
  /\ now.tz # 0
  /\ now.month < 10
  /\ now.ms > 0
  /\ Len(datetime) = 14

\* C7: on success getJwtToken returns the response body unchanged, after a
\* single POST to https://{host}/auth/v1/tokens/token:generate with body
\* {key, resources: [workspaceName]} and the generated Authorization header.
C7_ResponseUnmodified ==
  transport.state = "fulfilled" =>
    /\ result = Fulfilled(transport.data)
    /\ Len(posts) = 1
    /\ posts[1].method = "POST"
    /\ posts[1].url =
         WireUrlScheme \o EnvOr(env.INWORLD_HOST, DefaultHost) \o WireUrlPath
    /\ posts[1].body =
         [ key |-> args.apiKey.key,
           resources |-> << EnvOr(env.INWORLD_WORKSPACE, DefaultWorkspace) >> ]
    /\ posts[1].headers.Authorization = authHeader
    /\ authHeader # << >>

C7_Witness ==
  /\ pc = "resolved"
  /\ transport.state = "fulfilled"
  /\ result.data.hasSessionId
  /\ env.INWORLD_WORKSPACE.set

\* C8: the signature getSignatureKey returns is the one the README's
\* algorithm computes.
C8_ReadmeAgrees ==
  pc \in Signed => sigHex = ReadmeSignatureKey(args.apiKey.secret, params)

\* C9: every nonce has the same non-zero length, 11, and holds lowercase
\* hexadecimal characters only, whatever bytes were drawn.
C9_NonceShape ==
  pc \notin {"main", "getDateTime", "randomBytes"} =>
    /\ Len(nonce) = 11
    /\ \A i \in 1..Len(nonce) : nonce[i] \in LowerHex

C9_Witness ==
  /\ pc = "getSignatureKey"
  /\ nonce = Str(<< "0", "0", "0", "0", "0", "0", "0", "0", "0", "0", "0" >>)

\* The header of a run in environment e that reads the date d and draws the
\* nonce n.
HeaderOfRun(e, d, n) ==
  LET a == AuthorizationArgs(e)
  IN  AuthorizationValue(
        a.apiKey.key, getDateTime(d), n,
        ChainedSignature(a.apiKey.secret,
                         SignatureParams(a.host, a.engineHost,
                                         getDateTime(d), n)))

\* C10: the signed host comes from INWORLD_ENGINE_HOST; a run that differs
\* in INWORLD_HOST only yields the same header, and the POST URL is the one
\* of INWORLD_HOST.
C10_HostNotSigned ==
  pc = "await" =>
    /\ \A h \in HostValues :
         authHeader = HeaderOfRun([env EXCEPT !.INWORLD_HOST = h], now, nonce)
    /\ params[2] = ReplaceFirst(EnvOr(env.INWORLD_ENGINE_HOST,
                                      DefaultEngineHost), Port443, << >>)
    /\ posts[1].url = TokenUrl(EnvOr(env.INWORLD_HOST, DefaultHost))

C10_Witness ==
  /\ pc = "await"
  /\ env.INWORLD_HOST.set
  /\ ~env.INWORLD_ENGINE_HOST.set
  /\ Len(posts) = 1

====
